---------------------------- MODULE Spec2Model ----------------------------
(***************************************************************************)
(* Model of the currency converter of src/script.js: the rate cache, the   *)
(* asynchronous rate fetches, the auto-update timer, the conversion        *)
(* pipeline and the conversion history kept in localStorage.               *)
(*                                                                         *)
(* Numbers are exact decimals [m, e] standing for m / 10^e, normalised so  *)
(* that numerically equal values are equal records.  Text typed into the   *)
(* amount field is a sequence of one-character strings.                    *)
(***************************************************************************)
EXTENDS Integers, Sequences, FiniteSets, TLC

(***************************************************************************)
(* Bounds of the model.                                                    *)
(***************************************************************************)
MaxSteps == 5          \* handler runs, fetch completions and clock advances
                       \* explored from page load
MaxDeleteRank == 3     \* on a returning visit the Delete buttons of the first
                       \* MaxDeleteRank entries of the list are clicked

(***************************************************************************)
(* Program constants.                                                      *)
(***************************************************************************)
HISTORY_LIMIT == 50    \* "Keep only last 50 entries"
MsPerSecond == 1000
ClockStepMs == MsPerSecond \div 2    \* one advance of the clock, in ms

(***************************************************************************)
(* JavaScript values.                                                      *)
(***************************************************************************)
Undefined == [type |-> "undefined"]
Null == [type |-> "null"]
NaN == [type |-> "NaN"]

RECURSIVE Pow10(_)
Pow10(n) == IF n = 0 THEN 1 ELSE 10 * Pow10(n - 1)

RECURSIVE Normalize(_, _)
\* the decimal m / 10^e without trailing fraction zeros
Normalize(m, e) ==
    IF e > 0 /\ m % 10 = 0 THEN Normalize(m \div 10, e - 1)
    ELSE [type |-> "number", m |-> m, e |-> e]

Num(m, e) == Normalize(m, e)

IsNaN(x) == x.type = "NaN"

\* x > 0 for a JS number; every comparison with NaN is false
Positive(x) == x.type = "number" /\ x.m > 0

\* x <= 0 for a JS number; every comparison with NaN is false
NonPositive(x) == x.type = "number" /\ x.m <= 0

Mul(a, b) == Num(a.m * b.m, a.e + b.e)

\* a toFixed that cuts the digits after the d-th off
ToFixed_truncated(x, d) ==
    IF x.e <= d THEN x.m * Pow10(d - x.e)
    ELSE x.m \div Pow10(x.e - d)

\* Number.prototype.toFixed(d) of a non-negative number: the decimal string
\* with exactly d fraction digits, nearest to x, ties rounded up.  The string
\* is represented by the integer it spells without the point ("92.00" is 9200).
\* (JavaScript rounds the binary value of x, so where the decimal x lies
\* exactly between two candidates it may give either of them.)
ToFixed(x, d) ==
    IF x.e <= d THEN x.m * Pow10(d - x.e)
    ELSE LET q == Pow10(x.e - d)
         IN  (x.m + (q \div 2)) \div q

(***************************************************************************)
(* Strings of the amount field.                                            *)
(***************************************************************************)
Whitespace == {" "}
Digits == {"0", "1", "2", "3", "4", "5", "6", "7", "8", "9"}

DigitVal(c) ==
    CASE c = "0" -> 0 [] c = "1" -> 1 [] c = "2" -> 2 [] c = "3" -> 3
      [] c = "4" -> 4 [] c = "5" -> 5 [] c = "6" -> 6 [] c = "7" -> 7
      [] c = "8" -> 8 [] c = "9" -> 9

RECURSIVE TrimStart(_)
TrimStart(s) ==
    IF s # <<>> /\ Head(s) \in Whitespace THEN TrimStart(Tail(s)) ELSE s

RECURSIVE TrimEnd(_)
TrimEnd(s) ==
    IF s # <<>> /\ s[Len(s)] \in Whitespace
    THEN TrimEnd(SubSeq(s, 1, Len(s) - 1)) ELSE s

\* String.prototype.trim
Trim(s) == TrimEnd(TrimStart(s))

RECURSIVE DigitRun(_)
\* the longest prefix of s made of decimal digits
DigitRun(s) ==
    IF s # <<>> /\ Head(s) \in Digits THEN <<Head(s)>> \o DigitRun(Tail(s))
    ELSE <<>>

RECURSIVE DigitsValue(_)
DigitsValue(ds) ==
    IF ds = <<>> THEN 0
    ELSE 10 * DigitsValue(SubSeq(ds, 1, Len(ds) - 1)) + DigitVal(ds[Len(ds)])

\* parseFloat: leading whitespace skipped, an optional sign, the longest
\* decimal literal that follows; NaN when no digit is found.
ParseFloat(s) ==
    LET t == TrimStart(s)
        signed == t # <<>> /\ Head(t) \in {"-", "+"}
        sign == IF t # <<>> /\ Head(t) = "-" THEN -1 ELSE 1
        u == IF signed THEN Tail(t) ELSE t
        ip == DigitRun(u)
        r == SubSeq(u, Len(ip) + 1, Len(u))
        fp == IF r # <<>> /\ Head(r) = "." THEN DigitRun(Tail(r)) ELSE <<>>
    IN  IF Len(ip) + Len(fp) = 0 THEN NaN
        ELSE Num(sign * DigitsValue(ip \o fp), Len(fp))

(***************************************************************************)
(* The page's inputs and the remote rate provider.                         *)
(***************************************************************************)
\* the codes offered by the two currency selects
Currencies == {"USD", "EUR"}

\* texts the user can leave in the amount field
AmountInputs ==
    { <<>>,                       \* empty
      <<" ">>,                    \* blank
      <<"a", "b", "c">>,          \* not a number
      <<"-", "5">>,               \* negative
      <<"0">>,                    \* zero
      <<"1", "0", "0">> }         \* 100

\* the rates mappings the provider can answer with for a base currency: the
\* full table, or a table that lists the base alone
ProviderRates(base) ==
    IF base = "USD"
    THEN { [USD |-> Num(1, 0), EUR |-> Num(92, 2)], [USD |-> Num(1, 0)] }
    ELSE { [EUR |-> Num(1, 0), USD |-> Num(109, 2)], [EUR |-> Num(1, 0)] }

Obj(props) == [type |-> "object", props |-> props]

\* the parsed bodies of a successful response: an object with a rates
\* mapping, or an object without one (data.rates is undefined)
ResponseBodies(base) ==
    { [rates |-> Obj(r)] : r \in ProviderRates(base) } \cup { [rates |-> Undefined] }

\* the ways a fetch ends in the catch block: fetch() rejects, response.ok is
\* false, response.json() rejects
FetchFailures == {"unreachable", "status", "unparseable"}

(***************************************************************************)
(* Messages passed to showError.                                           *)
(***************************************************************************)
NoMessage == ""
EmptyInput == "Please enter an amount"
InvalidNumber == "Please enter a valid number"
NonPositiveAmount == "Amount must be greater than 0"
RateUnavailable == "Conversion failed. Please try again."
FetchError == "Failed to fetch rates. Please check your internet connection."

(***************************************************************************)
(* State.                                                                  *)
(***************************************************************************)
VARIABLES
    loaded,             \* DOMContentLoaded has run
    fromCurrency,       \* fromCurrency.value
    toCurrency,         \* toCurrency.value
    amount,             \* amount.value
    updateIntervalId,   \* 0 stands for null
    autoUpdateEnabled,
    ratesCache,
    lastUpdateTime,
    conversionHistory,  \* localStorage item 'conversionHistory'
    timers,             \* ids of the live interval timers armed by startAutoUpdate
    timersArmed,        \* number of setInterval calls of startAutoUpdate so far
    pending,            \* fetches in flight: [seq, base]
    fetchCount,         \* number of fetches started so far
    now,                \* Date.now(), in ms
    cacheTag,           \* history variable: the fetch that last wrote ratesCache
                        \* and the data.rates it delivered
    ev,                 \* history variable: the last handler run and what it did
    steps               \* number of steps taken so far

progVars ==
    <<loaded, fromCurrency, toCurrency, amount, updateIntervalId,
      autoUpdateEnabled, ratesCache, lastUpdateTime, conversionHistory,
      timers, timersArmed, pending, fetchCount>>

vars == <<progVars, now, cacheTag, ev, steps>>

\* ev: the handler that ran last (op), how its conversion ended (conv: "none"
\* when it made no attempt, "ok", or the message it passed to showError), what
\* it passed to displayResult (shown) and how many fetches it started.  The
\* amountError and result elements themselves are not part of the state.
Event(op, conv, shown, fetches) ==
    [op |-> op, conv |-> conv, shown |-> shown, fetches |-> fetches]

Init ==
    /\ loaded = FALSE
    /\ fromCurrency \in Currencies
    /\ toCurrency \in Currencies
    /\ amount = <<>>
    /\ updateIntervalId = 0
    /\ autoUpdateEnabled = TRUE
    /\ ratesCache = Obj([c \in {} |-> NaN])
    /\ lastUpdateTime = Null
    /\ conversionHistory = Null
    /\ timers = {}
    /\ timersArmed = 0
    /\ pending = {}
    /\ fetchCount = 0
    /\ now = 0
    /\ cacheTag = [seq |-> 0, base |-> "none", rates |-> ratesCache]
    /\ ev = Event("script", "none", Null, 0)
    /\ steps = 0

\* every step counts against the exploration bound
Step ==
    /\ steps < MaxSteps
    /\ steps' = steps + 1

(***************************************************************************)
(* Validation.                                                             *)
(***************************************************************************)
\* an isValidAmount without the `> 0` test
isValidAmount_anyNumber(v) ==
    /\ v # <<>>
    /\ ~IsNaN(ParseFloat(v))

\* isValidAmount: amount.value is truthy, parses to a number, and that
\* number is > 0
isValidAmount(v) ==
    /\ v # <<>>
    /\ ~IsNaN(ParseFloat(v))
    /\ Positive(ParseFloat(v))

\* a validateInput that tests amount.value === '' without trim()
validateInput_untrimmed(v) ==
    LET amountValue == ParseFloat(v)
    IN  IF v = <<>> THEN EmptyInput
        ELSE IF IsNaN(amountValue) THEN InvalidNumber
        ELSE IF NonPositive(amountValue) THEN NonPositiveAmount
        ELSE NoMessage

\* validateInput: the message shown by the first failing check, NoMessage
\* when the function returns true
validateInput(v) ==
    LET amountValue == ParseFloat(v)
    IN  IF Trim(v) = <<>> THEN EmptyInput
        ELSE IF IsNaN(amountValue) THEN InvalidNumber
        ELSE IF NonPositive(amountValue) THEN NonPositiveAmount
        ELSE NoMessage

(***************************************************************************)
(* History.                                                                *)
(***************************************************************************)
\* new Date().toLocaleString(): date and time to the second
ToLocaleString(t) == t \div MsPerSecond

\* JSON.parse(localStorage.getItem('conversionHistory')) || []
\* (stringify followed by parse gives back the same entries: they hold finite
\* numbers and strings only)
ReadHistory(item) == IF item.type = "null" THEN <<>> ELSE item.items

Stored(h) == [type |-> "array", items |-> h]

\* an addToHistory without the duplicate check
addToHistory_noDedup(item, fromCurr, toCurr, amt, converted, t) ==
    LET history == ReadHistory(item)
        entry == [id |-> t, fromCurr |-> fromCurr, toCurr |-> toCurr,
                  amount |-> amt, converted |-> converted,
                  timestamp |-> ToLocaleString(t)]
        unshifted == <<entry>> \o history
    IN  IF Len(unshifted) > HISTORY_LIMIT
        THEN Stored(SubSeq(unshifted, 1, HISTORY_LIMIT))
        ELSE Stored(unshifted)

\* an addToHistory that skips a conversion found anywhere in the list
addToHistory_dedupAnywhere(item, fromCurr, toCurr, amt, converted, t) ==
    LET history == ReadHistory(item)
        isDuplicate ==
            \E i \in 1..Len(history) :
                /\ history[i].fromCurr = fromCurr
                /\ history[i].toCurr = toCurr
                /\ history[i].amount = amt
                /\ history[i].converted = converted
        entry == [id |-> t, fromCurr |-> fromCurr, toCurr |-> toCurr,
                  amount |-> amt, converted |-> converted,
                  timestamp |-> ToLocaleString(t)]
        unshifted == <<entry>> \o history
    IN  IF isDuplicate THEN item
        ELSE IF Len(unshifted) > HISTORY_LIMIT
             THEN Stored(SubSeq(unshifted, 1, HISTORY_LIMIT))
             ELSE Stored(unshifted)

\* an addToHistory that evicts the entry behind the new head instead of the
\* last one: history.splice(1, 1) in place of slice(0, 50)
addToHistory_evictsNewest(item, fromCurr, toCurr, amt, converted, t) ==
    LET history == ReadHistory(item)
        isDuplicate ==
            /\ history # <<>>
            /\ history[1].fromCurr = fromCurr
            /\ history[1].toCurr = toCurr
            /\ history[1].amount = amt
            /\ history[1].converted = converted
        entry == [id |-> t, fromCurr |-> fromCurr, toCurr |-> toCurr,
                  amount |-> amt, converted |-> converted,
                  timestamp |-> ToLocaleString(t)]
        unshifted == <<entry>> \o history
    IN  IF isDuplicate THEN item
        ELSE IF Len(unshifted) > HISTORY_LIMIT
             THEN Stored(<<entry>> \o Tail(history))
             ELSE Stored(unshifted)

\* an addToHistory that adds the entry at the end: history.push(entry)
addToHistory_pushes(item, fromCurr, toCurr, amt, converted, t) ==
    LET history == ReadHistory(item)
        isDuplicate ==
            /\ history # <<>>
            /\ history[1].fromCurr = fromCurr
            /\ history[1].toCurr = toCurr
            /\ history[1].amount = amt
            /\ history[1].converted = converted
        entry == [id |-> t, fromCurr |-> fromCurr, toCurr |-> toCurr,
                  amount |-> amt, converted |-> converted,
                  timestamp |-> ToLocaleString(t)]
        pushed == history \o <<entry>>
    IN  IF isDuplicate THEN item
        ELSE IF Len(pushed) > HISTORY_LIMIT
             THEN Stored(SubSeq(pushed, 1, HISTORY_LIMIT))
             ELSE Stored(pushed)

\* an addToHistory whose duplicate check also compares the id with Date.now()
addToHistory_dedupSameTime(item, fromCurr, toCurr, amt, converted, t) ==
    LET history == ReadHistory(item)
        isDuplicate ==
            /\ history # <<>>
            /\ history[1].id = t
            /\ history[1].fromCurr = fromCurr
            /\ history[1].toCurr = toCurr
            /\ history[1].amount = amt
            /\ history[1].converted = converted
        entry == [id |-> t, fromCurr |-> fromCurr, toCurr |-> toCurr,
                  amount |-> amt, converted |-> converted,
                  timestamp |-> ToLocaleString(t)]
        unshifted == <<entry>> \o history
    IN  IF isDuplicate THEN item
        ELSE IF Len(unshifted) > HISTORY_LIMIT
             THEN Stored(SubSeq(unshifted, 1, HISTORY_LIMIT))
             ELSE Stored(unshifted)

\* addToHistory: the item stored afterwards
addToHistory(item, fromCurr, toCurr, amt, converted, t) ==
    LET history == ReadHistory(item)
        isDuplicate ==
            /\ history # <<>>
            /\ history[1].fromCurr = fromCurr
            /\ history[1].toCurr = toCurr
            /\ history[1].amount = amt
            /\ history[1].converted = converted
        entry == [id |-> t, fromCurr |-> fromCurr, toCurr |-> toCurr,
                  amount |-> amt, converted |-> converted,
                  timestamp |-> ToLocaleString(t)]
        unshifted == <<entry>> \o history
    IN  IF isDuplicate THEN item
        ELSE IF Len(unshifted) > HISTORY_LIMIT
             THEN Stored(SubSeq(unshifted, 1, HISTORY_LIMIT))
             ELSE Stored(unshifted)

\* deleteHistoryItem: the item stored afterwards
deleteHistoryItem(item, id) ==
    LET history == ReadHistory(item)
        Other(entry) == entry.id # id
    IN  Stored(SelectSeq(history, Other))

(***************************************************************************)
(* Conversion.                                                             *)
(***************************************************************************)
\* ratesCache[toCurr]: a TypeError is thrown when the cache is undefined, the
\* value is undefined
\* when the key is missing
Lookup(cache, toCurr) ==
    IF cache.type # "object" THEN [type |-> "TypeError"]
    ELSE IF toCurr \notin DOMAIN cache.props THEN Undefined
    ELSE cache.props[toCurr]

\* !rate
Falsy(rate) == rate.type # "number" \/ rate.m = 0

\* what displayResult puts on the page
displayResult(converted, rate, fromCurr, toCurr) ==
    [type |-> "result", resultAmount |-> converted,
     exchangeRate |-> <<1, fromCurr, ToFixed(rate, 4), toCurr>>]

\* a performConversion that records the attempt before it looks up the rate
performConversion_logsFirst(v, fromCurr, toCurr, cache, item, t) ==
    LET check == validateInput(v)
        amt == ParseFloat(v)
        rate == Lookup(cache, toCurr)
        converted == ToFixed(Mul(amt, rate), 2)
    IN  IF check # NoMessage
        THEN [conv |-> check, shown |-> Null, item |-> item]
        ELSE IF rate.type = "TypeError" \/ Falsy(rate)
        THEN [conv |-> RateUnavailable, shown |-> Null,
              item |-> addToHistory(item, fromCurr, toCurr, amt, 0, t)]
        ELSE [conv |-> "ok",
              shown |-> displayResult(converted, rate, fromCurr, toCurr),
              item |-> addToHistory(item, fromCurr, toCurr, amt, converted, t)]

\* performConversion on the given page state.  conv tells how it ended: the
\* message of the failing check of validateInput, the message of the catch
\* block, or "ok" (result displayed and handed to addToHistory).
performConversion(v, fromCurr, toCurr, cache, item, t) ==
    LET check == validateInput(v)
        amt == ParseFloat(v)
        rate == Lookup(cache, toCurr)
        converted == ToFixed(Mul(amt, rate), 2)
    IN  IF check # NoMessage
        THEN [conv |-> check, shown |-> Null, item |-> item]
        ELSE IF rate.type = "TypeError" \/ Falsy(rate)
        THEN [conv |-> RateUnavailable, shown |-> Null, item |-> item]
        ELSE [conv |-> "ok",
              shown |-> displayResult(converted, rate, fromCurr, toCurr),
              item |-> addToHistory(item, fromCurr, toCurr, amt, converted, t)]

\* a handler's optional conversion: `if (isValidAmount()) performConversion()`
\* when guarded, performConversion() otherwise
Convert(guarded, v, fromCurr, toCurr, cache, item, t) ==
    IF guarded /\ ~isValidAmount(v)
    THEN [conv |-> "none", shown |-> Null, item |-> item]
    ELSE performConversion(v, fromCurr, toCurr, cache, item, t)

(***************************************************************************)
(* Fetching and the update timer.                                          *)
(***************************************************************************)
\* a fetchRatesOnce that asks for the rates of USD whatever is selected
StartFetch_defaultBase(inFlight, count, base) ==
    inFlight \cup { [seq |-> count + 1, base |-> "USD"] }

\* the synchronous part of fetchRatesOnce: the request for the base selected
\* at the time of the call is in flight
StartFetch(inFlight, count, base) ==
    inFlight \cup { [seq |-> count + 1, base |-> base] }

\* a start that leaves the previous timer running
ClearInterval_skipped(live, id) == live

\* `if (updateIntervalId) clearInterval(updateIntervalId)`
ClearInterval(live, id) == IF id # 0 THEN live \ {id} ELSE live

\* setInterval hands out a fresh id
SetInterval(live, armed) == live \cup {armed + 1}

\* startAutoUpdate, called with inFlight requests in flight of the count
\* started so far: clear the old timer, start a fetch, arm a new timer
startAutoUpdate(inFlight, count) ==
    /\ pending' = StartFetch(inFlight, count, fromCurrency)
    /\ fetchCount' = count + 1
    /\ timers' = SetInterval(ClearInterval(timers, updateIntervalId), timersArmed)
    /\ updateIntervalId' = timersArmed + 1
    /\ timersArmed' = timersArmed + 1

\* a catch block that also drops the cached rates
CacheAfterFailure_reset(cache) == Obj([c \in {} |-> NaN])

\* the catch block of fetchRatesOnce leaves ratesCache alone
CacheAfterFailure(cache) == cache

\* the continuation of fetchRatesOnce when fetch() or response.json() rejects
\* or response.ok is false: the catch block shows the error
FetchFails(f) ==
    /\ Step
    /\ f \in pending
    /\ \E cause \in FetchFailures : TRUE
    /\ pending' = pending \ {f}
    /\ ratesCache' = CacheAfterFailure(ratesCache)
    /\ ev' = Event("fetchFail", FetchError, Null, 0)
    /\ UNCHANGED <<loaded, fromCurrency, toCurrency, amount, updateIntervalId,
                   autoUpdateEnabled, lastUpdateTime,
                   conversionHistory, timers, timersArmed,
                   fetchCount, now, cacheTag>>

\* a continuation that adds the new rates to the cached ones:
\* Object.assign(ratesCache, data.rates)
StoredRates_merged(cache, data) ==
    IF cache.type # "object" \/ data.rates.type # "object" THEN data.rates
    ELSE Obj([c \in DOMAIN cache.props \cup DOMAIN data.rates.props |->
                IF c \in DOMAIN data.rates.props THEN data.rates.props[c]
                ELSE cache.props[c]])

\* what the continuation stores in ratesCache
StoredRates(cache, data) == data.rates

\* the continuation of fetchRatesOnce when the response is ok and its body
\* parses to data
StoresRates(f, data) ==
    /\ f \in pending
    /\ data \in ResponseBodies(f.base)
    /\ pending' = pending \ {f}
    /\ ratesCache' = StoredRates(ratesCache, data)
    /\ lastUpdateTime' = [type |-> "Date", ms |-> now]
    /\ cacheTag' = [seq |-> f.seq, base |-> f.base, rates |-> data.rates]
    /\ ev' = Event("fetchOk", "none", Null, 0)
    /\ UNCHANGED <<loaded, fromCurrency, toCurrency, amount, updateIntervalId,
                   autoUpdateEnabled,
                   conversionHistory, timers, timersArmed, fetchCount, now>>

FetchSucceeds(f, data) == Step /\ StoresRates(f, data)

\* the DOMContentLoaded handler: loadHistory, setupEventListeners,
\* fetchRatesOnce, startAutoUpdate
DOMContentLoaded ==
    /\ Step
    /\ ~loaded
    /\ loaded' = TRUE
    /\ startAutoUpdate(StartFetch(pending, fetchCount, fromCurrency),
                       fetchCount + 1)
    /\ ev' = Event("load", "none", Null, 2)
    /\ UNCHANGED <<fromCurrency, toCurrency, amount, autoUpdateEnabled,
                   ratesCache, lastUpdateTime,
                   conversionHistory, now, cacheTag>>

\* the outcome r of a handler's conversion is stored
Shows(r) ==
    /\ conversionHistory' = r.item

\* the interval callback armed by startAutoUpdate
IntervalTick ==
    /\ Step
    /\ loaded
    /\ \E id \in timers : TRUE
    /\ IF autoUpdateEnabled
       THEN LET r == Convert(TRUE, amount, fromCurrency, toCurrency, ratesCache,
                             conversionHistory, now)
            IN  /\ pending' = StartFetch(pending, fetchCount, fromCurrency)
                /\ fetchCount' = fetchCount + 1
                /\ Shows(r)
                /\ ev' = Event("tick", r.conv, r.shown, 1)
       ELSE /\ ev' = Event("tick", "none", Null, 0)
            /\ UNCHANGED <<pending, fetchCount,
                           conversionHistory>>
    /\ UNCHANGED <<loaded, fromCurrency, toCurrency, amount, updateIntervalId,
                   autoUpdateEnabled, ratesCache, lastUpdateTime, timers,
                   timersArmed, now, cacheTag>>

\* a toggle that starts the updates again whichever way the flag went
RestartsOnToggle_always(enabled) == TRUE

\* `if (autoUpdateEnabled) startAutoUpdate()`, on the flag as just set
RestartsOnToggle(enabled) == enabled

\* toggleAutoUpdateMode: flip the flag, and start again when turning on
toggleAutoUpdateMode ==
    /\ Step
    /\ loaded
    /\ autoUpdateEnabled' = ~autoUpdateEnabled
    /\ IF RestartsOnToggle(autoUpdateEnabled')
       THEN /\ startAutoUpdate(pending, fetchCount)
            /\ ev' = Event("toggle", "none", Null, 1)
       ELSE /\ ev' = Event("toggle", "none", Null, 0)
            /\ UNCHANGED <<timers, updateIntervalId, timersArmed, pending,
                           fetchCount>>
    /\ UNCHANGED <<loaded, fromCurrency, toCurrency, amount, ratesCache,
                   lastUpdateTime,
                   conversionHistory, now, cacheTag>>

(***************************************************************************)
(* The user's handlers.                                                    *)
(***************************************************************************)
\* 'input' on the amount field: the user has edited the text to v
AmountInput(v) ==
    /\ Step
    /\ loaded
    /\ v # amount
    /\ amount' = v
    /\ LET r == Convert(TRUE, v, fromCurrency, toCurrency, ratesCache,
                        conversionHistory, now)
       IN  /\ Shows(r)
           /\ ev' = Event("input", r.conv, r.shown, 0)
    /\ UNCHANGED <<loaded, fromCurrency, toCurrency, updateIntervalId,
                   autoUpdateEnabled, ratesCache, lastUpdateTime, timers,
                   timersArmed, pending, fetchCount, now, cacheTag>>

\* 'keypress' of Enter in the amount field
AmountEnter ==
    /\ Step
    /\ loaded
    /\ LET r == Convert(FALSE, amount, fromCurrency, toCurrency, ratesCache,
                        conversionHistory, now)
       IN  /\ Shows(r)
           /\ ev' = Event("enter", r.conv, r.shown, 0)
    /\ UNCHANGED <<loaded, fromCurrency, toCurrency, amount, updateIntervalId,
                   autoUpdateEnabled, ratesCache, lastUpdateTime, timers,
                   timersArmed, pending, fetchCount, now, cacheTag>>

\* 'change' on the from-currency select: the user has picked c
FromCurrencyChange(c) ==
    /\ Step
    /\ loaded
    /\ c # fromCurrency
    /\ fromCurrency' = c
    /\ LET r == Convert(TRUE, amount, c, toCurrency, ratesCache,
                        conversionHistory, now)
       IN  /\ Shows(r)
           /\ ev' = Event("from", r.conv, r.shown, 0)
    /\ UNCHANGED <<loaded, toCurrency, amount, updateIntervalId,
                   autoUpdateEnabled, ratesCache, lastUpdateTime, timers,
                   timersArmed, pending, fetchCount, now, cacheTag>>

\* 'change' on the to-currency select: the user has picked c
ToCurrencyChange(c) ==
    /\ Step
    /\ loaded
    /\ c # toCurrency
    /\ toCurrency' = c
    /\ LET r == Convert(TRUE, amount, fromCurrency, c, ratesCache,
                        conversionHistory, now)
       IN  /\ Shows(r)
           /\ ev' = Event("to", r.conv, r.shown, 0)
    /\ UNCHANGED <<loaded, fromCurrency, amount, updateIntervalId,
                   autoUpdateEnabled, ratesCache, lastUpdateTime, timers,
                   timersArmed, pending, fetchCount, now, cacheTag>>

\* swapCurrencies: exchange the selects, start a fetch for the new base,
\* convert at once from the cache as it is
swapCurrencies ==
    /\ Step
    /\ loaded
    /\ fromCurrency' = toCurrency
    /\ toCurrency' = fromCurrency
    /\ pending' = StartFetch(pending, fetchCount, fromCurrency')
    /\ fetchCount' = fetchCount + 1
    /\ LET r == Convert(TRUE, amount, fromCurrency', toCurrency', ratesCache,
                        conversionHistory, now)
       IN  /\ Shows(r)
           /\ ev' = Event("swap", r.conv, r.shown, 1)
    /\ UNCHANGED <<loaded, amount, updateIntervalId, autoUpdateEnabled,
                   ratesCache, lastUpdateTime, timers, timersArmed, now,
                   cacheTag>>

\* clearForm: empty the amount (and hide the result and the error)
clearForm ==
    /\ Step
    /\ loaded
    /\ amount' = <<>>
    /\ ev' = Event("clear", "none", Null, 0)
    /\ UNCHANGED <<loaded, fromCurrency, toCurrency, updateIntervalId,
                   autoUpdateEnabled, ratesCache, lastUpdateTime,
                   conversionHistory, timers, timersArmed, pending, fetchCount,
                   now, cacheTag>>

\* the Delete button of the history entry with this id
DeleteHistoryItem(id) ==
    /\ Step
    /\ loaded
    /\ conversionHistory' = deleteHistoryItem(conversionHistory, id)
    /\ ev' = Event("delete", "none", Null, 0)
    /\ UNCHANGED <<loaded, fromCurrency, toCurrency, amount, updateIntervalId,
                   autoUpdateEnabled, ratesCache, lastUpdateTime,
                   timers, timersArmed, pending, fetchCount,
                   now, cacheTag>>

\* deleteAllHistory: the user answers the confirm() dialog
deleteAllHistory(confirmed) ==
    /\ Step
    /\ loaded
    /\ conversionHistory' = IF confirmed THEN Null ELSE conversionHistory
    /\ ev' = Event("deleteAll", "none", Null, 0)
    /\ UNCHANGED <<loaded, fromCurrency, toCurrency, amount, updateIntervalId,
                   autoUpdateEnabled, ratesCache, lastUpdateTime,
                   timers, timersArmed, pending, fetchCount,
                   now, cacheTag>>

\* time passes
AdvanceClock ==
    /\ Step
    /\ now' = now + ClockStepMs
    /\ UNCHANGED <<progVars, cacheTag, ev>>

HistoryIds == { ReadHistory(conversionHistory)[i].id :
                  i \in 1..Len(ReadHistory(conversionHistory)) }

Next ==
    \/ DOMContentLoaded
    \/ \E v \in AmountInputs : AmountInput(v)
    \/ AmountEnter
    \/ \E c \in Currencies : FromCurrencyChange(c)
    \/ \E c \in Currencies : ToCurrencyChange(c)
    \/ swapCurrencies
    \/ toggleAutoUpdateMode
    \/ IntervalTick
    \/ \E f \in pending : FetchFails(f)
    \/ \E f \in pending : \E data \in ResponseBodies(f.base) : FetchSucceeds(f, data)
    \/ clearForm
    \/ \E id \in HistoryIds : DeleteHistoryItem(id)
    \/ \E confirmed \in BOOLEAN : deleteAllHistory(confirmed)
    \/ AdvanceClock

Spec == Init /\ [][Next]_vars

(***************************************************************************)
(* A returning visit: the page has loaded and fetched its rates, and        *)
(* localStorage holds the history earlier visits left.                     *)
(***************************************************************************)
\* amounts typed on a returning visit: 100, 0.01, 0.12 (at the rate 0.92 the
\* products are 92, 0.0092 and 0.1104)
ReturnAmounts ==
    { <<"1", "0", "0">>, <<"0", ".", "0", "1">>, <<"0", ".", "1", "2">> }

\* the clock when the returning visit starts
ReturnTime == HISTORY_LIMIT * ClockStepMs

\* the full table of the provider for a base
FullTable(base) ==
    CHOOSE r \in ProviderRates(base) : DOMAIN r = Currencies

\* the i-th newest entry of the earlier visits: what addToHistory stored for
\* 100 USD converted to EUR and to USD in turn, one clock step apart
EarlierEntry(i) ==
    LET toCurr == IF i % 2 = 1 THEN "EUR" ELSE "USD"
        amt == Num(100, 0)
        t == ReturnTime - i * ClockStepMs
    IN  [id |-> t, fromCurr |-> "USD", toCurr |-> toCurr, amount |-> amt,
         converted |-> ToFixed(Mul(amt, FullTable("USD")[toCurr]), 2),
         timestamp |-> ToLocaleString(t)]

EarlierHistory(n) == [i \in 1..n |-> EarlierEntry(i)]

\* what localStorage holds at the start: nothing, or a list at the limit
EarlierItems == { Null, Stored(EarlierHistory(HISTORY_LIMIT)) }

\* the state once DOMContentLoaded has run with USD and EUR selected (the
\* pair last converted on the earlier visits) and both of its fetches have
\* stored the full table
ReturnInit ==
    /\ loaded = TRUE
    /\ fromCurrency = "USD"
    /\ toCurrency = "EUR"
    /\ amount = <<>>
    /\ updateIntervalId = 1
    /\ autoUpdateEnabled = TRUE
    /\ ratesCache = Obj(FullTable(fromCurrency))
    /\ lastUpdateTime = [type |-> "Date", ms |-> ReturnTime]
    /\ conversionHistory \in EarlierItems
    /\ timers = {1}
    /\ timersArmed = 1
    /\ pending = {}
    /\ fetchCount = 2
    /\ now = ReturnTime
    /\ cacheTag = [seq |-> 2, base |-> fromCurrency, rates |-> ratesCache]
    /\ ev = Event("fetchOk", "none", Null, 0)
    /\ steps = 0

\* ids of the first MaxDeleteRank entries of the list
NearHeadIds ==
    { ReadHistory(conversionHistory)[i].id :
        i \in 1..(IF Len(ReadHistory(conversionHistory)) < MaxDeleteRank
                  THEN Len(ReadHistory(conversionHistory))
                  ELSE MaxDeleteRank) }

ReturnNext ==
    \/ \E v \in ReturnAmounts : AmountInput(v)
    \/ AmountEnter
    \/ \E c \in Currencies : FromCurrencyChange(c)
    \/ \E c \in Currencies : ToCurrencyChange(c)
    \/ \E id \in NearHeadIds : DeleteHistoryItem(id)
    \/ \E confirmed \in BOOLEAN : deleteAllHistory(confirmed)
    \/ AdvanceClock

ReturnSpec == ReturnInit /\ [][ReturnNext]_vars

(***************************************************************************)
(* A returning visit left to the timer: the user types an amount and picks *)
(* a base, the timer ticks, responses arrive, time passes.                 *)
(***************************************************************************)
TickNext ==
    \/ \E v \in ReturnAmounts : AmountInput(v)
    \/ \E c \in Currencies : FromCurrencyChange(c)
    \/ IntervalTick
    \/ \E f \in pending : \E data \in ResponseBodies(f.base) : FetchSucceeds(f, data)
    \/ AdvanceClock

TickSpec == ReturnInit /\ [][TickNext]_vars

(***************************************************************************)
(* The page left running: the timer keeps firing and every request is      *)
(* answered with a rates table before the next tick.  Ticks and answers    *)
(* are not counted against MaxSteps; the user's base changes are.  A tick  *)
(* numbers its fetch like the last fetch started (all earlier ones have    *)
(* been answered), which keeps the numbering bounded.                      *)
(***************************************************************************)
\* the interval callback, firing when no request is in flight
LiveTick ==
    /\ loaded
    /\ \E id \in timers : TRUE
    /\ pending = {}
    /\ IF autoUpdateEnabled
       THEN LET r == Convert(TRUE, amount, fromCurrency, toCurrency, ratesCache,
                             conversionHistory, now)
            IN  /\ pending' = StartFetch(pending, fetchCount - 1, fromCurrency)
                /\ Shows(r)
                /\ ev' = Event("tick", r.conv, r.shown, 1)
       ELSE /\ ev' = Event("tick", "none", Null, 0)
            /\ UNCHANGED <<pending, conversionHistory>>
    /\ UNCHANGED <<loaded, fromCurrency, toCurrency, amount, updateIntervalId,
                   autoUpdateEnabled, ratesCache, lastUpdateTime, timers,
                   timersArmed, fetchCount, now, cacheTag, steps>>

\* the bodies of a response that carries a rates mapping
RatesBodies(base) == { [rates |-> Obj(r)] : r \in ProviderRates(base) }

\* some request in flight is answered with a rates mapping
LiveAnswer ==
    \E f \in pending : \E data \in RatesBodies(f.base) :
        StoresRates(f, data) /\ UNCHANGED steps

LiveNext ==
    \/ DOMContentLoaded
    \/ \E c \in Currencies : FromCurrencyChange(c)
    \/ swapCurrencies
    \/ LiveTick
    \/ LiveAnswer

\* the browser fires DOMContentLoaded, the armed timer fires again and again,
\* and no request stays unanswered
LiveSpec ==
    /\ Init /\ [][LiveNext]_vars
    /\ WF_vars(DOMContentLoaded)
    /\ WF_vars(LiveTick)
    /\ WF_vars(LiveAnswer)

(***************************************************************************)
(* Properties.                                                             *)
(***************************************************************************)
\* this step runs the handler op (a step that only advances the clock leaves
\* ev as it was)
Ran(op) == steps' # steps /\ now' = now /\ ev'.op = op

\* the last handler called performConversion
Attempted == ev.op # "fetchFail" /\ ev.conv # "none"

\* the currencies the cache holds a rate for
Cached(cache) == IF cache.type = "object" THEN DOMAIN cache.props ELSE {}

\* C1: whenever a conversion succeeds, the cache it read was fetched for the
\* base currency selected at the time of the conversion.
C1_ConversionReadsSelectedBase ==
    (Attempted /\ ev.conv = "ok") => cacheTag.base = fromCurrency

\* C2: the conversion triggered by an enabled timer tick reads the snapshot
\* stored by the fetch that this same tick started (the fetch numbered
\* fetchCount once the tick has run).
C2_TickConversionReadsTickFetch ==
    (ev.op = "tick" /\ ev.fetches = 1 /\ ev.conv = "ok")
        => cacheTag.seq = fetchCount

\* C3: the conversion triggered by a swap happens only after the fetch the
\* swap started for the new base has stored its result in the cache.
C3_SwapConversionAfterSwapFetch ==
    (ev.op = "swap" /\ ev.conv = "ok")
        => (cacheTag.seq = fetchCount /\ cacheTag.base = fromCurrency)

\* C4: a fetch started earlier never writes the cache after a fetch started
\* later has written it: the writers of the cache come in start order.
C4_NoStaleOverwrite == [][cacheTag'.seq >= cacheTag.seq]_vars

\* C5: at most one update timer is live; once start has run, exactly one is
\* live, the one updateIntervalId names, however often start has run.
C5_OneLiveTimer ==
    /\ Cardinality(timers) <= 1
    /\ timersArmed >= 1 => timers = {updateIntervalId}

\* C5 witness: start has run twice (page load, then re-enable)
C5_StartedTwice == timersArmed = 2 /\ Cardinality(timers) = 1

\* C6 as stated: re-enabling keeps the timer handle, arms no timer and starts
\* no fetch.
C6_ReenableLeavesTimer ==
    [][(~autoUpdateEnabled /\ autoUpdateEnabled')
          => (/\ updateIntervalId' = updateIntervalId
              /\ timers' = timers
              /\ pending' = pending)]_vars

\* C6 amended: disabling changes the flag alone and leaves timer, handle and
\* fetches as they are; re-enabling runs start: the live timer is cancelled, a
\* new one with another handle is armed and is the only live one, and one
\* fetch for the selected base is started.
C6_ToggleEffect ==
    [][/\ (autoUpdateEnabled /\ ~autoUpdateEnabled')
            => UNCHANGED <<updateIntervalId, timers, timersArmed, pending,
                           fetchCount, ratesCache>>
       /\ (~autoUpdateEnabled /\ autoUpdateEnabled')
            => (/\ updateIntervalId' # updateIntervalId
                /\ updateIntervalId \notin timers'
                /\ timers' = {updateIntervalId'}
                /\ fetchCount' = fetchCount + 1
                /\ pending' = pending \cup
                      { [seq |-> fetchCount', base |-> fromCurrency] })]_vars

\* C6 witness: auto-update was disabled and has just been re-enabled
C6_Reenabled == ev.op = "toggle" /\ autoUpdateEnabled /\ timersArmed = 2

\* C7: a tick while disabled changes nothing; a tick while enabled starts one
\* fetch, leaves the cache alone, and attempts a conversion exactly when the
\* amount field holds a number greater than zero.
C7_TickEffect ==
    [][Ran("tick") =>
          IF ~autoUpdateEnabled
          THEN /\ UNCHANGED progVars
               /\ ev'.conv = "none" /\ ev'.fetches = 0
          ELSE /\ fetchCount' = fetchCount + 1
               /\ pending' = pending \cup
                      { [seq |-> fetchCount', base |-> fromCurrency] }
               /\ ratesCache' = ratesCache
               /\ ev'.conv # "none" <=>
                      LET x == ParseFloat(amount)
                      IN  x.type = "number" /\ x.m > 0]_vars

\* C7 witness: a tick fired while disabled, with a valid amount entered and
\* rates cached
C7_DisabledTick ==
    /\ ev.op = "tick" /\ ~autoUpdateEnabled
    /\ isValidAmount(amount)
    /\ toCurrency \in Cached(ratesCache)

\* C8: a failed fetch leaves the cache and the last-fetch timestamp as they
\* were, and a conversion attempted next, with a valid amount and a target
\* the cache holds, succeeds.
C8_FailedFetchKeepsCache ==
    [][/\ Ran("fetchFail")
            => (ratesCache' = ratesCache /\ lastUpdateTime' = lastUpdateTime)
       /\ (/\ ev.op = "fetchFail"
           /\ steps' # steps /\ now' = now
           /\ ev'.op \in {"input", "enter", "from", "to", "swap", "tick"}
           /\ isValidAmount(amount')
           /\ toCurrency' \in Cached(ratesCache)
           /\ ev'.op = "tick" => autoUpdateEnabled)
            => ev'.conv = "ok"]_vars

\* C8 witness: a fetch has just failed some time after rates were stored,
\* with a valid amount entered and the target in the cache
C8_FailedAfterStored ==
    /\ ev.op = "fetchFail"
    /\ lastUpdateTime.type = "Date"
    /\ isValidAmount(amount)
    /\ toCurrency \in Cached(ratesCache)

\* C9: the cache is only ever replaced by a well-formed mapping of currency
\* code to rate; a success response without a rates mapping changes nothing.
C9_CacheIsAlwaysAMapping == ratesCache.type = "object"

\* all characters of s are whitespace
Blank(s) == \A i \in 1..Len(s) : s[i] \in Whitespace

\* C10: a conversion attempt reports the first failing check in the order
\* blank, not a number, not positive, rate missing, and succeeds otherwise.
C10_FirstFailingCheck ==
    Attempted =>
        ev.conv =
            IF Blank(amount) THEN EmptyInput
            ELSE IF ParseFloat(amount).type # "number" THEN InvalidNumber
            ELSE IF ParseFloat(amount).m <= 0 THEN NonPositiveAmount
            ELSE IF toCurrency \notin Cached(ratesCache) THEN RateUnavailable
            ELSE "ok"

\* C10 witness: an invalid amount was reported as such although the target
\* currency is missing from the cache too
C10_InvalidAmountAndNoRate ==
    /\ Attempted
    /\ ev.conv \in {EmptyInput, InvalidNumber, NonPositiveAmount}
    /\ toCurrency \notin Cached(ratesCache)

\* the messages a conversion attempt can end with
Failures == {EmptyInput, InvalidNumber, NonPositiveAmount, RateUnavailable}

\* C11: a conversion attempt that fails with any of the four messages leaves
\* the stored history exactly as it was; the stored history changes only by a
\* successful conversion, a delete or a delete-all.
C11_FailureLeavesHistory ==
    [][/\ (steps' # steps /\ now' = now /\ ev'.conv \in Failures)
            => conversionHistory' = conversionHistory
       /\ conversionHistory' # conversionHistory
            => (\/ ev'.conv = "ok"
                \/ ev'.op \in {"delete", "deleteAll"})]_vars

\* C11 witness: a conversion attempt has just failed while the stored history
\* holds an entry
C11_FailedWithHistory ==
    /\ Attempted /\ ev.conv \in Failures
    /\ ReadHistory(conversionHistory) # <<>>

\* C13: the cache is exactly the rates mapping the last successful fetch
\* delivered, so a conversion to a target that mapping lacks fails with
\* RateUnavailable whatever earlier snapshots held.
C13_CacheIsLastSnapshot ==
    /\ ratesCache = cacheTag.rates
    /\ (Attempted /\ isValidAmount(amount)
            /\ toCurrency \notin Cached(cacheTag.rates))
          => ev.conv = RateUnavailable

\* C13 witness: a conversion has just failed for a target the last snapshot
\* lacks although an earlier conversion to that target succeeded (the stored
\* history holds its entry)
C13_LostTarget ==
    /\ Attempted /\ ev.conv = RateUnavailable
    /\ cacheTag.rates.type = "object"
    /\ toCurrency \notin Cached(cacheTag.rates)
    /\ \E i \in 1..Len(ReadHistory(conversionHistory)) :
          ReadHistory(conversionHistory)[i].toCurr = toCurrency

\* this step ran a handler whose conversion succeeded
Converted == steps' # steps /\ now' = now /\ ev'.conv = "ok"

\* c hundredths is a multiple of 1/100 nearest to p / 10^e
NearestHundredth(c, p, e) ==
    IF e <= 2 THEN c = p * Pow10(2 - e)
    ELSE LET q == Pow10(e - 2)
         IN  2 * (p - c * q) <= q /\ 2 * (c * q - p) <= q

\* C12: a successful conversion of the amount a to a target with cached rate
\* r displays a * r rounded to the nearest hundredth together with the rate
\* r (to four decimals) for the selected pair, hands that same amount and
\* result to the history, and leaves the cache unchanged.
C12_ConvertedAmount ==
    [][Converted =>
          LET a == ParseFloat(amount')
              r == ratesCache.props[toCurrency']
              c == ev'.shown.resultAmount
              h == ReadHistory(conversionHistory')
          IN  /\ a.m > 0 /\ r.m > 0
              /\ NearestHundredth(c, a.m * r.m, a.e + r.e)
              /\ ev'.shown.exchangeRate =
                     <<1, fromCurrency', r.m * Pow10(4 - r.e), toCurrency'>>
              /\ h # <<>> /\ h[1].amount = a /\ h[1].converted = c
              /\ ratesCache' = ratesCache]_vars

\* C12 witness: 0.01 USD has been converted at the rate 0.92, displayed as
\* 0.01 with "1 USD = 0.9200 EUR"
C12_RoundedUp ==
    /\ Attempted /\ ev.conv = "ok"
    /\ ParseFloat(amount) = Num(1, 2)
    /\ ev.shown.resultAmount = 1
    /\ ev.shown.exchangeRate = <<1, "USD", 9200, "EUR">>

\* the entries x and y agree in base, target, amount and converted amount
SameConversion(x, y) ==
    /\ x.fromCurr = y.fromCurr /\ x.toCurr = y.toCurr
    /\ x.amount = y.amount /\ x.converted = y.converted

\* no two neighbours of the list h are the same conversion
NoAdjacentDuplicates(h) ==
    \A i \in 1..(Len(h) - 1) : ~SameConversion(h[i], h[i + 1])

\* C14 as stated: in every reachable state no two adjacent stored entries
\* are the same conversion.
C14_NoAdjacentDuplicates ==
    NoAdjacentDuplicates(ReadHistory(conversionHistory))

\* C14 amended: an append never puts a new entry in front of an entry that is
\* the same conversion, so every step but a remove keeps a list without
\* adjacent duplicates free of them (a remove of the entry between two equal
\* conversions makes them neighbours).
C14_OnlyRemoveJoinsDuplicates ==
    [][(/\ NoAdjacentDuplicates(ReadHistory(conversionHistory))
        /\ ~Ran("delete"))
          => NoAdjacentDuplicates(ReadHistory(conversionHistory'))]_vars

\* C14 witness: an entry has just been prepended to a list whose second
\* entry from the head is the same conversion (a non-adjacent duplicate)
C14_AppendedNearDuplicate ==
    LET h == ReadHistory(conversionHistory)
    IN  /\ Attempted /\ ev.conv = "ok"
        /\ Len(h) >= 3 /\ h[1].id = now
        /\ SameConversion(h[1], h[3])
        /\ NoAdjacentDuplicates(h)

\* the conversion a handler has just displayed, as addToHistory receives it
Displayed(e) ==
    [fromCurr |-> e.shown.exchangeRate[2], toCurr |-> e.shown.exchangeRate[4],
     amount |-> ParseFloat(amount'), converted |-> e.shown.resultAmount]

\* C15: appending a conversion equal to the head in base, target, amount and
\* converted amount leaves the stored item as it is (the head keeps its id
\* and timestamp); appending any other conversion puts a new entry with
\* these four fields at the head, in front of the entries stored before.
C15_AppendDeduplicates ==
    [][Converted =>
          LET h == ReadHistory(conversionHistory)
              h2 == ReadHistory(conversionHistory')
              new == Displayed(ev')
          IN  IF h # <<>> /\ SameConversion(h[1], new)
              THEN conversionHistory' = conversionHistory
              ELSE /\ h2 # <<>>
                   /\ SameConversion(h2[1], new)
                   /\ \A i \in 2..Len(h2) : h2[i] = h[i - 1]]_vars

\* C15 witness: a conversion has just succeeded and was not stored, the head
\* being the same conversion made at an earlier time
C15_Skipped ==
    LET h == ReadHistory(conversionHistory)
    IN  /\ Attempted /\ ev.conv = "ok"
        /\ h # <<>> /\ h[1].id < now
        /\ h[1].fromCurr = fromCurrency /\ h[1].toCurr = toCurrency
        /\ h[1].amount = ParseFloat(amount)
        /\ h[1].converted = ev.shown.resultAmount

\* C16: the stored history never holds more than HISTORY_LIMIT entries, and
\* a conversion stored while it holds HISTORY_LIMIT entries drops the last
\* entry alone: the list stays at the limit and every other entry moves one
\* place back behind the new head.
C16_CapacityAndEviction ==
    /\ [](Len(ReadHistory(conversionHistory)) <= HISTORY_LIMIT)
    /\ [][(/\ Converted
            /\ Len(ReadHistory(conversionHistory)) = HISTORY_LIMIT
            /\ conversionHistory' # conversionHistory)
              => LET h == ReadHistory(conversionHistory)
                     h2 == ReadHistory(conversionHistory')
                 IN  /\ Len(h2) = HISTORY_LIMIT
                     /\ h2[1].id = now
                     /\ \A i \in 1..(HISTORY_LIMIT - 1) : h2[i + 1] = h[i]]_vars

\* C16 witness: a conversion has just been stored in a list at the limit:
\* the oldest entry of the earlier visits is gone and the one before it is
\* now the last
C16_EvictedOldest ==
    LET h == ReadHistory(conversionHistory)
    IN  /\ Attempted /\ ev.conv = "ok"
        /\ Len(h) = HISTORY_LIMIT /\ h[1].id = now
        /\ h[2] = EarlierEntry(1)
        /\ h[HISTORY_LIMIT] = EarlierEntry(HISTORY_LIMIT - 1)

\* the list h without its k-th entry
Without(h, k) == SubSeq(h, 1, k - 1) \o SubSeq(h, k + 1, Len(h))

\* C17: a click on an entry's Delete button removes exactly one entry: the
\* list loses one place and the other entries keep their order.
C17_RemovesExactlyOne ==
    [][Ran("delete") =>
          LET h == ReadHistory(conversionHistory)
          IN  \E k \in 1..Len(h) :
                  ReadHistory(conversionHistory') = Without(h, k)]_vars

\* C18: the stored entries have pairwise distinct ids.
C18_DistinctIds ==
    LET h == ReadHistory(conversionHistory)
    IN  \A i, j \in 1..Len(h) : h[i].id = h[j].id => i = j

RECURSIVE Subsequence(_, _)
\* the entries of a are entries of b, in the order they have in b
Subsequence(a, b) ==
    IF a = <<>> THEN TRUE
    ELSE IF b = <<>> THEN FALSE
    ELSE IF Head(a) = Head(b) THEN Subsequence(Tail(a), Tail(b))
    ELSE Subsequence(a, Tail(b))

\* C19: the stored list runs from the most recent entry to the oldest: the
\* creation times never increase from the head on, and every change of the
\* list either puts an entry created now at the head, in front of the
\* entries kept, or removes entries; either way the entries that remain keep
\* their order.
C19_MostRecentFirst ==
    /\ [](LET h == ReadHistory(conversionHistory)
          IN  \A i \in 1..(Len(h) - 1) : h[i].id >= h[i + 1].id)
    /\ [][LET h == ReadHistory(conversionHistory)
              h2 == ReadHistory(conversionHistory')
          IN  \/ h2 = h
              \/ Subsequence(h2, h)
              \/ /\ Converted
                 /\ h2[1].id = now
                 /\ Tail(h2) = SubSeq(h, 1, Len(h2) - 1)]_vars

\* C19 witness: a conversion was stored in a list at the limit, evicting the
\* oldest entry, and then the entry behind the new head was deleted: the new
\* entry leads and the entries of the earlier visits follow in their order
C19_EvictedThenRemoved ==
    LET h == ReadHistory(conversionHistory)
    IN  /\ ev.op = "delete"
        /\ Len(h) = HISTORY_LIMIT - 1
        /\ h[1].id >= ReturnTime
        /\ h[2] = EarlierEntry(2)
        /\ h[HISTORY_LIMIT - 1] = EarlierEntry(HISTORY_LIMIT - 1)

\* the cache holds a rates mapping fetched for the selected base
CacheForSelectedBase ==
    cacheTag.base = fromCurrency /\ ratesCache.type = "object"

\* C20: with auto-update enabled, the timer firing and every request
\* answered with rates, a change of the base is always followed by a state in
\* which the cache holds rates fetched for the selected base, and from some
\* point on (the base changes being finitely many) it holds such rates for
\* good.
C20_CacheCatchesUp ==
    /\ (ev.op \in {"from", "swap"}) ~> CacheForSelectedBase
    /\ <>[]CacheForSelectedBase

\* C20 witness: after a change of the base the cache holds rates fetched for
\* the new base while a request for the old base is still in flight
C20_CaughtUpAfterChange ==
    /\ ev.op = "fetchOk"
    /\ CacheForSelectedBase
    /\ \E f \in pending : f.base # fromCurrency

\* C21: an enabled tick stores at most one entry, and stores it only when its
\* conversion succeeds and differs from the head (with amount, base and
\* target as in the head: only when the converted amount differs); after it
\* the head is the tick's conversion, so a tick that follows a converting
\* tick with nothing but time in between stores nothing.
C21_TicksDoNotFlood ==
    [][(Ran("tick") /\ autoUpdateEnabled) =>
          LET h == ReadHistory(conversionHistory)
              h2 == ReadHistory(conversionHistory')
          IN  /\ Len(h2) <= Len(h) + 1
              /\ conversionHistory' # conversionHistory
                    => /\ ev'.conv = "ok"
                       /\ h # <<>> => ~SameConversion(h[1], Displayed(ev'))
                       /\ (/\ h # <<>>
                           /\ h[1].fromCurr = fromCurrency
                           /\ h[1].toCurr = toCurrency
                           /\ h[1].amount = ParseFloat(amount))
                             => h[1].converted # ev'.shown.resultAmount
              /\ ev'.conv = "ok"
                    => (h2 # <<>> /\ SameConversion(h2[1], Displayed(ev')))
              /\ (ev.op = "tick" /\ ev.conv = "ok")
                    => conversionHistory' = conversionHistory]_vars

\* C21 witness: two ticks have run since the page loaded, amount, base and
\* target unchanged between them; the rates stored in between changed the
\* converted amount, and the second tick has put a further entry in front of
\* the entry for the same amount, base and target
C21_FurtherEntryAfterRateChange ==
    LET h == ReadHistory(conversionHistory)
    IN  /\ ev.op = "tick" /\ ev.conv = "ok"
        /\ fetchCount = 4
        /\ Len(h) >= 2 /\ h[1].id = now
        /\ h[1].fromCurr = h[2].fromCurr /\ h[1].toCurr = h[2].toCurr
        /\ h[1].amount = h[2].amount
        /\ h[1].converted # h[2].converted

=============================================================================
